---- MODULE Spec2Model ----
(***************************************************************************)
(* Model of the remote job executors of psij-python:                       *)
(*   RemoteJobExecutor (submit, cancel, list, attach, _update_job_status) *)
(*   NERSCExecutor and SlurmRestAPIExecutor (the four driver operations   *)
(*   and the two state-mapping tables).                                    *)
(* The remote scheduler is the environment: every driver call receives a   *)
(* backend response chosen from a bounded set.                             *)
(***************************************************************************)
EXTENDS Integers, Sequences, FiniteSets, TLC

\* ---------------------------------------------------------------- bounds
\* number of distinct job identifiers the backend hands out
MaxJobId == 1
\* number of job handles the caller works with
MaxHandles == 1
\* longest job listing the backend returns
MaxListLen == 1

\* ---------------------------------------------------------------- values
Handles == 1..MaxHandles
Drivers == {"nersc", "slurm"}

JobState == {"NEW", "QUEUED", "ACTIVE", "COMPLETED", "CANCELED", "FAILED"}
FinalStates == {"COMPLETED", "CANCELED", "FAILED"}

\* Python values, tagged with their type; an int carries its decimal digits
PyNone == [ty |-> "NoneType", v |-> "None"]
PyS(s) == [ty |-> "str", v |-> s]
PyI(d) == [ty |-> "int", v |-> d]
PyL(q) == [ty |-> "list", v |-> q]

\* Python truthiness: None, '', 0 and [] are false
Truthy(x) ==
  CASE x.ty = "NoneType" -> FALSE
    [] x.ty = "str" -> x.v /= ""
    [] x.ty = "int" -> x.v /= "0"
    [] x.ty = "list" -> x.v /= <<>>

\* Python str(): a str is itself, an int its digits, None the text 'None'
PyStr(x) ==
  CASE x.ty = "NoneType" -> PyS("None")
    [] x.ty = "str" -> x
    [] x.ty = "int" -> PyS(x.v)

\* str.upper() on the status tokens the backend is modelled to send
Upper(t) ==
  CASE t = "running" -> "RUNNING"
    [] OTHER -> t

\* outcome of a call: an exception of some kind, or a returned value
Raise(kind) == [raised |-> TRUE, err |-> kind, val |-> PyNone]
Return(x) == [raised |-> FALSE, err |-> "none", val |-> x]

\* ------------------------------------------------------- backend inputs
JobIdDigits == {ToString(100 + i) : i \in 1..MaxJobId}

\* status tokens a scheduler may report (known, unmapped, other case, empty)
Tokens == {"PENDING", "CONFIGURING", "RUNNING", "COMPLETED", "CANCELLED",
           "FAILED", "TIMEOUT", "PREEMPTED", "NODE_FAIL", "SUSPENDED",
           "UNKNOWN", "", "running"}

\* a backend response: ok = the transport call succeeded (no ApiException,
\* no HTTP error); has = the field / job record is present; val = its value
Resp(ok, has, val) == [ok |-> ok, has |-> has, val |-> val]
TransportFailure == Resp(FALSE, FALSE, PyNone)

\* NERSC answers submit with JSON: jobid absent, null, empty, zero, or a real
\* identifier as number or text
NerscSubmitResponses ==
  {TransportFailure, Resp(TRUE, FALSE, PyNone)}
    \cup {Resp(TRUE, TRUE, x) : x \in {PyNone, PyS(""), PyI("0")}
                                   \cup {PyI(d) : d \in JobIdDigits}
                                   \cup {PyS(d) : d \in JobIdDigits}}

\* the slurmrestd client answers submit with a typed response whose job_id
\* is an integer or None
SlurmSubmitResponses ==
  {TransportFailure}
    \cup {Resp(TRUE, TRUE, x) : x \in {PyNone, PyI("0")}
                                   \cup {PyI(d) : d \in JobIdDigits}}

SubmitResponses(d) ==
  IF d = "nersc" THEN NerscSubmitResponses ELSE SlurmSubmitResponses

\* NERSC answers a status request with JSON: status absent, null or a token
NerscStatusResponses ==
  {TransportFailure, Resp(TRUE, FALSE, PyNone)}
    \cup {Resp(TRUE, TRUE, x) : x \in {PyNone} \cup {PyS(t) : t \in Tokens}}

\* slurmrestd answers with a job list (has = FALSE: no job record) whose first
\* entry has job_state None, a token, or a list of tokens
SlurmStatusResponses ==
  {TransportFailure, Resp(TRUE, FALSE, PyNone)}
    \cup {Resp(TRUE, TRUE, x) : x \in {PyNone, PyL(<<>>), PyL(<<"RUNNING">>)}
                                   \cup {PyS(t) : t \in Tokens}}

StatusResponses(d) ==
  IF d = "nersc" THEN NerscStatusResponses ELSE SlurmStatusResponses

CancelResponses == {TransportFailure, Resp(TRUE, FALSE, PyNone)}

\* job listings: the jobid of each entry, up to MaxListLen entries
ListJobIds == {PyNone} \cup {PyI(d) : d \in JobIdDigits}
ListResponses ==
  {TransportFailure}
    \cup {Resp(TRUE, TRUE, PyL(q)) :
            q \in UNION {[1..n -> ListJobIds] : n \in 0..MaxListLen}}

\* identifiers a caller passes to attach, the empty string included
AttachIds == {PyS("")} \cup {PyS(d) : d \in JobIdDigits}

\* ------------------------------------------------------ state mappers
\* dict.get(key, default)
DictGet(m, k, default) == IF k \in DOMAIN m THEN m[k] ELSE default

NerscMapping ==
  ("PENDING" :> "QUEUED") @@ ("RUNNING" :> "ACTIVE")
    @@ ("COMPLETED" :> "COMPLETED") @@ ("CANCELLED" :> "CANCELED")
    @@ ("FAILED" :> "FAILED") @@ ("TIMEOUT" :> "FAILED")
    @@ ("PREEMPTED" :> "FAILED") @@ ("NODE_FAIL" :> "FAILED")
    @@ ("SUSPENDED" :> "QUEUED")

SlurmMapping ==
  ("PENDING" :> "QUEUED") @@ ("CONFIGURING" :> "NEW")
    @@ ("RUNNING" :> "ACTIVE")
    @@ ("COMPLETED" :> "COMPLETED") @@ ("CANCELLED" :> "CANCELED")
    @@ ("FAILED" :> "FAILED") @@ ("TIMEOUT" :> "FAILED")
    @@ ("PREEMPTED" :> "FAILED") @@ ("NODE_FAIL" :> "FAILED")
    @@ ("SUSPENDED" :> "CANCELED")

\* NERSCExecutor._map_nersc_state_to_psij: unmapped tokens default to NEW
map_nersc_state_to_psij(nersc_state) ==
  IF nersc_state.ty /= "str"
  THEN Raise("attribute_error")
  ELSE Return(DictGet(NerscMapping, Upper(nersc_state.v), "NEW"))

\* SlurmRestAPIExecutor._map_slurm_state_to_psij: unmapped tokens raise
map_slurm_state_to_psij(slurm_state) ==
  LET ret == DictGet(SlurmMapping, Upper(slurm_state.v), "none")
  IN IF ret = "none" THEN Raise("unmapped") ELSE Return(ret)

\* ------------------------------------------------------ driver: NERSC
\* variant of _submit_job without the 'if not native_id' check
NERSC_submit_job_unchecked(resp) ==
  IF ~resp.ok
  THEN Raise("transport")
  ELSE Return(PyStr(IF resp.has THEN resp.val ELSE PyNone))

\* NERSCExecutor._submit_job
NERSC_submit_job(resp) ==
  IF ~resp.ok
  THEN Raise("transport")
  ELSE LET native_id == IF resp.has THEN resp.val ELSE PyNone
       IN IF ~Truthy(native_id)
          THEN Raise("protocol")
          ELSE Return(PyStr(native_id))

\* NERSCExecutor._cancel_job
NERSC_cancel_job(resp) ==
  IF ~resp.ok THEN Raise("transport") ELSE Return(PyNone)

\* NERSCExecutor._get_job_status
NERSC_get_job_status(resp) ==
  IF ~resp.ok
  THEN Raise("transport")
  ELSE LET nersc_state == IF resp.has THEN resp.val ELSE PyS("UNKNOWN")
       IN map_nersc_state_to_psij(nersc_state)

\* NERSCExecutor._list_jobs: entries with a falsy jobid are dropped
RECURSIVE NERSC_job_ids(_)
NERSC_job_ids(q) ==
  IF q = <<>>
  THEN <<>>
  ELSE (IF Truthy(Head(q)) THEN <<PyStr(Head(q)).v>> ELSE <<>>)
         \o NERSC_job_ids(Tail(q))

NERSC_list_jobs(resp) ==
  IF ~resp.ok THEN Raise("transport") ELSE Return(PyL(NERSC_job_ids(resp.val.v)))

\* ------------------------------------------------------ driver: Slurm
\* SlurmRestAPIExecutor._submit_job
Slurm_submit_job(resp) ==
  IF ~resp.ok
  THEN Raise("transport")
  ELSE Return(PyStr(resp.val))

\* SlurmRestAPIExecutor._cancel_job
Slurm_cancel_job(resp) ==
  IF ~resp.ok THEN Raise("transport") ELSE Return(PyNone)

\* SlurmRestAPIExecutor._get_job_status
Slurm_get_job_status(resp) ==
  IF ~resp.ok
  THEN Raise("transport")
  ELSE IF ~resp.has
       THEN Raise("not_found")
       ELSE LET state == IF Truthy(resp.val) THEN resp.val ELSE PyS("")
                primary_slurm_state ==
                  IF state.ty = "list" /\ Truthy(state)
                  THEN PyS(Head(state.v))
                  ELSE IF state.ty = "str" THEN state ELSE PyS("")
            IN map_slurm_state_to_psij(primary_slurm_state)

\* SlurmRestAPIExecutor._list_jobs: every job_id is stringified
Slurm_job_ids(q) == [i \in 1..Len(q) |-> PyStr(q[i]).v]

Slurm_list_jobs(resp) ==
  IF ~resp.ok THEN Raise("transport") ELSE Return(PyL(Slurm_job_ids(resp.val.v)))

\* ---------------------------------------------------------------- state
VARIABLES
  driver,      \* which concrete executor this instance is
  state,       \* state[h]: job.status.state
  native_id,   \* native_id[h]: job._native_id (None until set)
  last,        \* the most recent call, its inputs, outcome and driver calls
  pc,          \* where the caller of test_simple_job is ("idle": no such caller)
  backend      \* what the scheduler does with that caller's job

vars == <<driver, state, native_id, last, pc, backend>>

NoCall ==
  [op |-> "init", h |-> 0, raised |-> FALSE, err |-> "none", calls |-> 0,
   resp |-> TransportFailure, ret |-> PyNone, status |-> "none",
   pre_state |-> "none", pre_id |-> PyNone]

\* the record of a call op on handle h, with the handle as it was on entry
Call(op, h) ==
  [NoCall EXCEPT !.op = op, !.h = h, !.pre_state = state[h],
                 !.pre_id = native_id[h]]

Init ==
  /\ driver \in Drivers
  /\ state = [h \in Handles |-> "NEW"]
  /\ native_id = [h \in Handles |-> PyNone]
  /\ last = NoCall
  /\ pc = "idle"
  /\ backend = "none"

\* ------------------------------------------- abstract driver operations
submit_job(resp) ==
  IF driver = "nersc" THEN NERSC_submit_job(resp) ELSE Slurm_submit_job(resp)

cancel_job(resp) ==
  IF driver = "nersc" THEN NERSC_cancel_job(resp) ELSE Slurm_cancel_job(resp)

list_jobs(resp) ==
  IF driver = "nersc" THEN NERSC_list_jobs(resp) ELSE Slurm_list_jobs(resp)

get_job_status(resp) ==
  IF driver = "nersc" THEN NERSC_get_job_status(resp)
  ELSE Slurm_get_job_status(resp)

\* ------------------------------------------------ framework (JobExecutor)
\* JobExecutor._check_job: the job (built with a JobSpec) is in state NEW
check_job(h) ==
  IF state[h] /= "NEW" THEN Raise("invalid_job") ELSE Return(PyNone)

\* JobExecutor._set_job_status: the status is applied to the handle
set_job_status(h, status) == [state EXCEPT ![h] = status]

\* ------------------------------------------------- RemoteJobExecutor
\* variant of submit that marks the job QUEUED before the driver call returns
submit_eager(h) ==
  IF check_job(h).raised
  THEN /\ last' = [Call("submit", h) EXCEPT !.raised = TRUE,
                                             !.err = check_job(h).err]
       /\ UNCHANGED <<state, native_id>>
  ELSE \E resp \in SubmitResponses(driver) :
         LET r == submit_job(resp)
         IN /\ state' = set_job_status(h, "QUEUED")
            /\ IF r.raised
               THEN /\ last' = [Call("submit", h) EXCEPT !.raised = TRUE,
                                                          !.err = r.err, !.calls = 1,
                                                          !.resp = resp]
                    /\ UNCHANGED native_id
               ELSE /\ native_id' = [native_id EXCEPT ![h] = r.val]
                    /\ last' = [Call("submit", h) EXCEPT !.calls = 1, !.resp = resp,
                                                          !.ret = r.val]

\* variant of submit that keeps the native id in one place for all jobs
submit_shared_id(h) ==
  IF check_job(h).raised
  THEN /\ last' = [Call("submit", h) EXCEPT !.raised = TRUE,
                                             !.err = check_job(h).err]
       /\ UNCHANGED <<state, native_id>>
  ELSE \E resp \in SubmitResponses(driver) :
         LET r == submit_job(resp)
         IN IF r.raised
            THEN /\ last' = [Call("submit", h) EXCEPT !.raised = TRUE,
                                                       !.err = r.err, !.calls = 1,
                                                       !.resp = resp]
                 /\ UNCHANGED <<state, native_id>>
            ELSE /\ native_id' = [x \in DOMAIN native_id |-> r.val]
                 /\ state' = set_job_status(h, "QUEUED")
                 /\ last' = [Call("submit", h) EXCEPT !.calls = 1, !.resp = resp,
                                                       !.ret = r.val]

\* RemoteJobExecutor.submit; the backend answers the one driver call
submit(h) ==
  IF check_job(h).raised
  THEN /\ last' = [Call("submit", h) EXCEPT !.raised = TRUE,
                                             !.err = check_job(h).err]
       /\ UNCHANGED <<state, native_id>>
  ELSE \E resp \in SubmitResponses(driver) :
         LET r == submit_job(resp)
         IN IF r.raised
            THEN /\ last' = [Call("submit", h) EXCEPT !.raised = TRUE,
                                                       !.err = r.err, !.calls = 1,
                                                       !.resp = resp]
                 /\ UNCHANGED <<state, native_id>>
            ELSE /\ native_id' = [native_id EXCEPT ![h] = r.val]
                 /\ state' = set_job_status(h, "QUEUED")
                 /\ last' = [Call("submit", h) EXCEPT !.calls = 1, !.resp = resp,
                                                       !.ret = r.val]

Submit ==
  /\ \E h \in Handles : submit(h)
  /\ UNCHANGED <<driver, pc, backend>>

\* variant of cancel without the native-id precondition
cancel_unguarded(h) ==
  /\ UNCHANGED <<state, native_id>>
  /\ \E resp \in CancelResponses :
       LET r == cancel_job(resp)
       IN last' = [Call("cancel", h) EXCEPT !.raised = r.raised, !.err = r.err,
                                             !.calls = 1, !.resp = resp]

\* variant of cancel that marks the job CANCELED once the driver call succeeds
cancel_optimistic(h) ==
  IF ~Truthy(native_id[h])
  THEN /\ last' = [Call("cancel", h) EXCEPT !.raised = TRUE, !.err = "precondition"]
       /\ UNCHANGED <<state, native_id>>
  ELSE \E resp \in CancelResponses :
         LET r == cancel_job(resp)
         IN /\ last' = [Call("cancel", h) EXCEPT !.raised = r.raised, !.err = r.err,
                                                  !.calls = 1, !.resp = resp]
            /\ state' = IF r.raised THEN state ELSE set_job_status(h, "CANCELED")
            /\ UNCHANGED native_id

\* variant of cancel that calls the driver a second time when the first call fails
cancel_retry(h) ==
  /\ UNCHANGED <<state, native_id>>
  /\ IF ~Truthy(native_id[h])
     THEN last' = [Call("cancel", h) EXCEPT !.raised = TRUE, !.err = "precondition"]
     ELSE \E resp \in CancelResponses, again \in CancelResponses :
            LET r == cancel_job(resp)
                r2 == cancel_job(again)
            IN IF r.raised
               THEN last' = [Call("cancel", h) EXCEPT !.raised = r2.raised,
                                                       !.err = r2.err, !.calls = 2,
                                                       !.resp = again]
               ELSE last' = [Call("cancel", h) EXCEPT !.calls = 1, !.resp = resp]

\* RemoteJobExecutor.cancel
cancel(h) ==
  /\ UNCHANGED <<state, native_id>>
  /\ IF ~Truthy(native_id[h])
     THEN last' = [Call("cancel", h) EXCEPT !.raised = TRUE, !.err = "precondition"]
     ELSE \E resp \in CancelResponses :
            LET r == cancel_job(resp)
            IN last' = [Call("cancel", h) EXCEPT !.raised = r.raised, !.err = r.err,
                                                  !.calls = 1, !.resp = resp]

Cancel ==
  /\ \E h \in Handles : cancel(h)
  /\ UNCHANGED <<driver, pc, backend>>

\* RemoteJobExecutor.list
list ==
  \E resp \in ListResponses :
    LET r == list_jobs(resp)
    IN last' = [NoCall EXCEPT !.op = "list", !.raised = r.raised, !.err = r.err,
                              !.calls = 1, !.resp = resp, !.ret = r.val]

List ==
  /\ list
  /\ UNCHANGED <<driver, state, native_id, pc, backend>>

\* variant of attach that stores the identifier before checking the state
attach_assign_first(h, id) ==
  /\ native_id' = [native_id EXCEPT ![h] = id]
  /\ IF state[h] /= "NEW"
     THEN /\ last' = [Call("attach", h) EXCEPT !.raised = TRUE,
                                                !.err = "precondition"]
          /\ UNCHANGED state
     ELSE \E resp \in StatusResponses(driver) :
            LET r == get_job_status(resp)
            IN IF r.raised
               THEN /\ last' = [Call("attach", h) EXCEPT !.raised = TRUE,
                                                          !.err = r.err, !.calls = 1,
                                                          !.resp = resp]
                    /\ UNCHANGED state
               ELSE /\ state' = set_job_status(h, r.val)
                    /\ last' = [Call("attach", h) EXCEPT !.calls = 1, !.resp = resp,
                                                          !.status = r.val]

\* RemoteJobExecutor.attach
attach(h, id) ==
  IF state[h] /= "NEW"
  THEN /\ last' = [Call("attach", h) EXCEPT !.raised = TRUE, !.err = "precondition"]
       /\ UNCHANGED <<state, native_id>>
  ELSE /\ native_id' = [native_id EXCEPT ![h] = id]
       /\ \E resp \in StatusResponses(driver) :
            LET r == get_job_status(resp)
            IN IF r.raised
               THEN /\ last' = [Call("attach", h) EXCEPT !.raised = TRUE,
                                                          !.err = r.err, !.calls = 1,
                                                          !.resp = resp]
                    /\ UNCHANGED state
               ELSE /\ state' = set_job_status(h, r.val)
                    /\ last' = [Call("attach", h) EXCEPT !.calls = 1, !.resp = resp,
                                                          !.status = r.val]

Attach ==
  /\ \E h \in Handles, id \in AttachIds : attach(h, id)
  /\ UNCHANGED <<driver, pc, backend>>

\* variant of _update_job_status that re-raises the driver's error
update_job_status_reraise(h) ==
  IF ~Truthy(native_id[h])
  THEN /\ last' = Call("refresh", h)
       /\ UNCHANGED state
  ELSE \E resp \in StatusResponses(driver) :
         LET r == get_job_status(resp)
         IN IF r.raised
            THEN /\ last' = [Call("refresh", h) EXCEPT !.raised = TRUE, !.err = r.err,
                                                        !.calls = 1, !.resp = resp]
                 /\ UNCHANGED state
            ELSE /\ state' = set_job_status(h, r.val)
                 /\ last' = [Call("refresh", h) EXCEPT !.calls = 1, !.resp = resp,
                                                        !.status = r.val]

\* variant of _update_job_status without the native-id check
update_job_status_unguarded(h) ==
  \E resp \in StatusResponses(driver) :
    LET r == get_job_status(resp)
    IN IF r.raised
       THEN /\ last' = [Call("refresh", h) EXCEPT !.err = r.err, !.calls = 1,
                                                   !.resp = resp]
            /\ UNCHANGED state
       ELSE /\ state' = set_job_status(h, r.val)
            /\ last' = [Call("refresh", h) EXCEPT !.calls = 1, !.resp = resp,
                                                   !.status = r.val]

\* RemoteJobExecutor._update_job_status (refresh): a driver error is only logged
update_job_status(h) ==
  IF ~Truthy(native_id[h])
  THEN /\ last' = Call("refresh", h)
       /\ UNCHANGED state
  ELSE \E resp \in StatusResponses(driver) :
         LET r == get_job_status(resp)
         IN IF r.raised
            THEN /\ last' = [Call("refresh", h) EXCEPT !.err = r.err, !.calls = 1,
                                                        !.resp = resp]
                 /\ UNCHANGED state
            ELSE /\ state' = set_job_status(h, r.val)
                 /\ last' = [Call("refresh", h) EXCEPT !.calls = 1, !.resp = resp,
                                                        !.status = r.val]

Refresh ==
  /\ \E h \in Handles : update_job_status(h)
  /\ UNCHANGED <<driver, native_id, pc, backend>>

Next == Submit \/ Cancel \/ List \/ Attach \/ Refresh

Spec == Init /\ [][Next]_vars

\* ------------------------------------------- two jobs on one executor
\* one executor instance used for two job handles, calls interleaved
PairHandles == {1, 2}

InitPair ==
  /\ driver \in Drivers
  /\ state = [h \in PairHandles |-> "NEW"]
  /\ native_id = [h \in PairHandles |-> PyNone]
  /\ last = NoCall
  /\ pc = "idle"
  /\ backend = "none"

PairSubmit ==
  /\ \E h \in PairHandles : submit(h)
  /\ UNCHANGED <<driver, pc, backend>>

PairCancel ==
  /\ \E h \in PairHandles : cancel(h)
  /\ UNCHANGED <<driver, pc, backend>>

PairAttach ==
  /\ \E h \in PairHandles, id \in AttachIds : attach(h, id)
  /\ UNCHANGED <<driver, pc, backend>>

PairRefresh ==
  /\ \E h \in PairHandles : update_job_status(h)
  /\ UNCHANGED <<driver, native_id, pc, backend>>

NextPair == PairSubmit \/ PairCancel \/ List \/ PairAttach \/ PairRefresh

SpecPair == InitPair /\ [][NextPair]_vars

\* ------------------------------------------- tests: test_simple_job
\* the caller submits one job and waits for it; the scheduler runs the job
\* to successful completion
InitTest ==
  /\ driver \in Drivers
  /\ state = [h \in Handles |-> "NEW"]
  /\ native_id = [h \in Handles |-> PyNone]
  /\ last = NoCall
  /\ pc = "submit"
  /\ backend = "none"

\* executor.submit(job)
TestSubmit ==
  /\ pc = "submit"
  /\ submit(1)
  /\ pc' = (IF last'.raised THEN "error" ELSE "wait")
  /\ backend' = (IF last'.raised THEN "none" ELSE "PENDING")
  /\ UNCHANGED driver

\* the scheduler starts the job, then finishes it successfully
BackendRun ==
  /\ backend \in {"PENDING", "RUNNING"}
  /\ backend' = (IF backend = "PENDING" THEN "RUNNING" ELSE "COMPLETED")
  /\ UNCHANGED <<driver, state, native_id, last, pc>>

\* a status refresh, should anything outside the executor request one: the
\* request fails in transit or is answered with the job's current status
ExternalPoll ==
  /\ pc = "wait"
  /\ update_job_status(1)
  /\ last'.calls = 1
       => last'.resp \in {TransportFailure, Resp(TRUE, TRUE, PyS(backend))}
  /\ UNCHANGED <<driver, native_id, pc, backend>>

\* job.wait() returns once the job is in a final state
TestWait ==
  /\ pc = "wait"
  /\ state[1] \in FinalStates
  /\ pc' = "done"
  /\ UNCHANGED <<driver, state, native_id, last, backend>>

NextTest == TestSubmit \/ BackendRun \/ ExternalPoll \/ TestWait

\* the caller and the scheduler keep going; nothing in the executor
\* schedules a refresh, so ExternalPoll carries no fairness
SpecTest ==
  /\ InitTest /\ [][NextTest]_vars
  /\ WF_vars(TestSubmit) /\ WF_vars(BackendRun) /\ WF_vars(TestWait)

TypeOK ==
  /\ driver \in Drivers
  /\ state \in [Handles -> JobState]
  /\ \A h \in Handles : native_id[h].ty \in {"NoneType", "str"}

\* ---------------------------------------------------------------- claims
\* a native identifier that is a non-empty string
NonEmptyId(x) == x.ty = "str" /\ x.v /= ""

\* the last call was op and reached the driver
DriverCalled(op) == last.op = op /\ last.calls = 1

\* the last call fetched a status (attach or refresh) from the driver
StatusFetched == last.op \in {"attach", "refresh"} /\ last.calls = 1

\* C1: a submit that succeeds on a handle in NEW leaves on the handle the
\* non-empty native identifier the driver returned, and state QUEUED.
C1_SubmitSuccess ==
  (last.op = "submit" /\ ~last.raised /\ last.pre_state = "NEW")
    => /\ NonEmptyId(native_id[last.h])
       /\ native_id[last.h] = last.ret
       /\ state[last.h] = "QUEUED"

C1_Witness ==
  /\ last.op = "submit" /\ ~last.raised /\ last.pre_state = "NEW"
  /\ state[last.h] = "QUEUED" /\ NonEmptyId(native_id[last.h])

\* C2: a submit that fails (precondition or driver error) raises to the
\* caller and persists nothing: state and native identifier are as before
\* the call, so a handle that was NEW without identifier still is.
C2_SubmitFailure ==
  (last.op = "submit" /\ last.err /= "none")
    => /\ last.raised
       /\ state[last.h] = last.pre_state
       /\ native_id[last.h] = last.pre_id
       /\ (last.pre_state = "NEW" /\ last.pre_id = PyNone
             => state[last.h] = "NEW" /\ native_id[last.h] = PyNone)

C2_Witness ==
  /\ DriverCalled("submit") /\ last.raised
  /\ last.pre_state = "NEW" /\ last.pre_id = PyNone
  /\ state[last.h] = "NEW" /\ native_id[last.h] = PyNone

\* C3: a handle in a terminal state (COMPLETED, CANCELED, FAILED) keeps
\* that state under every operation, whatever the backend reports.
C3_TerminalAbsorbing ==
  (last.op \in {"submit", "cancel", "attach", "refresh"}
     /\ last.pre_state \in FinalStates)
    => state[last.h] = last.pre_state

\* C4: an attach call that directly follows an attach call on the same
\* handle (one that got past the NEW precondition) fails with a
\* precondition error.
C4_SecondAttachFails ==
  [][(/\ last.op = "attach" /\ last.err /= "precondition"
      /\ last'.op = "attach" /\ last'.h = last.h)
       => last'.raised /\ last'.err = "precondition"]_vars

\* C5: cancel on a handle without a native identifier raises a
\* precondition error and makes no driver call.
C5_CancelWithoutId ==
  (last.op = "cancel" /\ ~NonEmptyId(last.pre_id))
    => last.raised /\ last.err = "precondition" /\ last.calls = 0

C5_Witness ==
  /\ last.op = "cancel" /\ last.pre_id = PyNone
  /\ last.raised /\ last.calls = 0

\* C6: in each driver's table terminal tokens map to terminal states,
\* transient tokens map to NEW or QUEUED, and only RUNNING maps to ACTIVE.
TerminalTokens ==
  {"COMPLETED", "CANCELLED", "FAILED", "TIMEOUT", "PREEMPTED", "NODE_FAIL"}
TransientTokens == {"PENDING", "CONFIGURING", "SUSPENDED"}

C6_MappingClasses ==
  (StatusFetched /\ last.resp.ok /\ last.resp.has /\ last.resp.val.ty = "str")
    => LET t == Upper(last.resp.val.v)
       IN /\ t \in TerminalTokens => last.status \in FinalStates
          /\ t \in TransientTokens => last.status \in {"NEW", "QUEUED"}
          /\ last.status = "ACTIVE" => t = "RUNNING"

\* C7: a submit whose backend response carries no job identifier raises,
\* and the handle stays NEW without a native identifier.
C7_SubmitWithoutIdRaises ==
  (DriverCalled("submit") /\ last.resp.ok
     /\ (~last.resp.has \/ last.resp.val = PyNone))
    => /\ last.raised
       /\ state[last.h] = "NEW"
       /\ native_id[last.h] = last.pre_id

\* C8: get-status for an identifier the backend has no job record for
\* fails; it returns no canonical state.
C8_StatusNotFoundRaises ==
  (StatusFetched /\ last.resp.ok /\ ~last.resp.has)
    => last.err /= "none" /\ last.status = "none"

\* C9: a refresh leaves a QUEUED handle in QUEUED, ACTIVE or a terminal
\* state, and an ACTIVE handle in ACTIVE or a terminal state.
C9_RefreshForward ==
  last.op = "refresh"
    => /\ last.pre_state = "QUEUED"
            => state[last.h] \in {"QUEUED", "ACTIVE"} \cup FinalStates
       /\ last.pre_state = "ACTIVE"
            => state[last.h] \in {"ACTIVE"} \cup FinalStates

\* C10: every handle whose state is not NEW has a non-empty native
\* identifier.
C10_NonNewHasId ==
  \A h \in Handles : state[h] /= "NEW" => NonEmptyId(native_id[h])

\* C11: a refresh whose status fetch fails raises nothing to the caller
\* and leaves state and native identifier as they were.
C11_RefreshFailureSwallowed ==
  (last.op = "refresh" /\ last.err /= "none")
    => /\ ~last.raised
       /\ state[last.h] = last.pre_state
       /\ native_id[last.h] = last.pre_id

C11_Witness ==
  /\ DriverCalled("refresh") /\ last.err /= "none" /\ ~last.raised
  /\ last.pre_state = "QUEUED" /\ state[last.h] = "QUEUED"

\* C12: a refresh on a handle without a native identifier raises nothing,
\* makes no driver call and leaves the handle unchanged.
C12_RefreshWithoutIdNoOp ==
  (last.op = "refresh" /\ ~NonEmptyId(last.pre_id))
    => /\ ~last.raised /\ last.err = "none" /\ last.calls = 0
       /\ state[last.h] = last.pre_state
       /\ native_id[last.h] = last.pre_id

C12_Witness ==
  /\ last.op = "refresh" /\ last.pre_id = PyNone
  /\ last.calls = 0 /\ state[last.h] = "NEW"

\* C13: cancel, whether the driver call succeeds or fails, leaves state and
\* native identifier unchanged (so it never itself produces CANCELED).
C13_CancelKeepsHandle ==
  last.op = "cancel"
    => /\ state[last.h] = last.pre_state
       /\ native_id[last.h] = last.pre_id

C13_Witness ==
  /\ DriverCalled("cancel") /\ ~last.raised
  /\ last.pre_state = "ACTIVE" /\ state[last.h] = "ACTIVE"

\* C15: attach on a handle that is not NEW raises a precondition error
\* with no driver call, and state and native identifier stay as they were.
C15_AttachNotNewFailsFirst ==
  (last.op = "attach" /\ last.pre_state /= "NEW")
    => /\ last.raised /\ last.err = "precondition" /\ last.calls = 0
       /\ state[last.h] = last.pre_state
       /\ native_id[last.h] = last.pre_id

C15_Witness ==
  /\ last.op = "attach" /\ last.pre_state = "QUEUED" /\ last.raised
  /\ state[last.h] = "QUEUED" /\ native_id[last.h] = last.pre_id

\* C17: every call makes exactly one driver call when its precondition
\* holds and none when it does not, also when the driver call fails.
PreconditionHeld ==
  CASE last.op \in {"submit", "attach"} -> last.pre_state = "NEW"
    [] last.op \in {"cancel", "refresh"} -> Truthy(last.pre_id)
    [] OTHER -> TRUE

C17_NoRetry ==
  last.op /= "init"
    => last.calls = (IF PreconditionHeld THEN 1 ELSE 0)

C17_Witness ==
  /\ last.op = "cancel" /\ last.raised /\ last.err = "transport"
  /\ last.calls = 1

\* C19: an attach whose status fetch fails raises to the caller and leaves
\* the handle as before the call: state NEW, native identifier unset.
C19_AttachFailureKeepsHandle ==
  (DriverCalled("attach") /\ last.err /= "none")
    => /\ last.raised
       /\ state[last.h] = last.pre_state
       /\ native_id[last.h] = last.pre_id

\* C20: a native identifier, once set on a handle, is never changed to a
\* different value by a later call.
C20_NativeIdStable ==
  [][\A h \in DOMAIN native_id :
       native_id[h] /= PyNone => native_id'[h] = native_id[h]]_vars

\* C16: for a status outside its mapping table (a missing or empty status
\* included) the NERSC driver returns NEW and the Slurm driver raises.
UnmappedStatus ==
  /\ StatusFetched /\ last.resp.ok
  /\ LET x == last.resp.val
     IN IF driver = "nersc"
        THEN \/ ~last.resp.has
             \/ x = PyNone
             \/ x.ty = "str" /\ Upper(x.v) \notin DOMAIN NerscMapping
        ELSE /\ last.resp.has
             /\ \/ ~Truthy(x)
                \/ x.ty = "str" /\ Upper(x.v) \notin DOMAIN SlurmMapping

C16_UnmappedPolicy ==
  UnmappedStatus
    => IF driver = "nersc"
       THEN last.err = "none" /\ last.status = "NEW"
       ELSE last.err /= "none" /\ last.status = "none"

\* C18: a call on one handle leaves every other handle's state and native
\* identifier unchanged, and what it does to its own handle is decided by
\* that handle's own fields and the backend's answer alone (so each handle
\* ends where its own calls, run alone, would take it).
OwnStep(h) ==
  LET c == last'
      held == CASE c.op \in {"submit", "attach"} -> state[h] = "NEW"
                [] c.op \in {"cancel", "refresh"} -> Truthy(native_id[h])
  IN /\ c.pre_state = state[h] /\ c.pre_id = native_id[h]
     /\ c.calls = (IF held THEN 1 ELSE 0)
     /\ state'[h] = (IF c.status /= "none" THEN c.status
                     ELSE IF c.op = "submit" /\ c.calls = 1 /\ ~c.raised
                          THEN "QUEUED" ELSE state[h])
     /\ c.op \in {"cancel", "refresh"} => native_id'[h] = native_id[h]
     /\ c.op = "attach" /\ c.calls = 0 => native_id'[h] = native_id[h]
     /\ c.op = "submit"
          => native_id'[h] = (IF c.calls = 1 /\ ~c.raised THEN c.ret
                              ELSE native_id[h])

C18_DistinctHandlesIndependent ==
  [][/\ \A h \in DOMAIN state :
          h /= last'.h => state'[h] = state[h] /\ native_id'[h] = native_id[h]
     /\ last'.h \in DOMAIN state => OwnStep(last'.h)]_vars

C18_Witness ==
  /\ last.op = "submit" /\ last.h = 1 /\ ~last.raised
  /\ state[1] = "QUEUED"
  /\ state[2] = "ACTIVE" /\ NonEmptyId(native_id[2])

\* C14: once submit has succeeded and the caller waits, the wait
\* eventually returns with the handle in COMPLETED.
C14_SubmitThenWaitCompletes ==
  (pc = "wait") ~> (pc = "done" /\ state[1] = "COMPLETED")

====
